---- MODULE Spec2Model ----
(***************************************************************************)
(* Real-time event distribution layer of the delivery-executive chatbot    *)
(* backend: the ConnectionManager (live connections and the channel        *)
(* subscription graph), the per-connection WebSocketHandler loop, the      *)
(* Redis pub/sub listener and the NotificationService direct sends.        *)
(*                                                                         *)
(* The asyncio event loop runs one task at a time.  An action is one       *)
(* handler run from one blocking wait (the handshake, receive_text, the    *)
(* listener's next message) to the next: the RedisService coroutines make  *)
(* synchronous Redis calls and never yield, and a send_text either         *)
(* completes or raises at once.                                            *)
(***************************************************************************)
EXTENDS Integers, Sequences, FiniteSets, TLC

\* ------------------------------------------------------------------ bounds
NumTransports == 2      \* transports (sockets) the environment may open

\* ------------------------------------------------------------- input sets
Users == {1, 2}
Transports == 1..NumTransports
Orders == {"ORD1"}

UserChannel(u) ==
    IF u = 1 THEN "user_notifications:1" ELSE "user_notifications:2"
DeliveryChannel(o) ==
    IF o = "ORD1" THEN "delivery_updates:ORD1"
    ELSE IF o = "location_updates:1"
         THEN "delivery_updates:location_updates:1"
         ELSE IF o = "location_updates:2"
              THEN "delivery_updates:location_updates:2"
              ELSE "delivery_updates:ORD2"
SystemChannel == "system_notifications:all"

\* channels a client asks for in subscribe / unsubscribe messages
ClientChannels == {DeliveryChannel("ORD1"), SystemChannel}
\* channels of the patterns the listener psubscribes to
ListenerChannels == {DeliveryChannel("ORD1"), SystemChannel}

\* a bearer credential: whether jwt.decode accepts it, and its subject
Tokens == [valid : BOOLEAN, sub : Users]

\* get_cache: None (no client, no key), or the decoded value
Miss == [hit |-> FALSE, value |-> {}]
Hit(v) == [hit |-> TRUE, value |-> v]
RejectCode == 4003

Msg(type, channel) == [type |-> type, channel |-> channel]

VARIABLES
    active_connections,     \* user_id -> transport
    subscriptions,          \* user_id -> set of channels
    channel_subscribers,    \* channel -> set of user_ids
    redis_subscriber_task,  \* "None" or "Task"
    listener_pc,            \* "-" (no task), "listening", "returned"
    redis_client,           \* whether the Redis connection was established
    ws,                     \* transport -> "new" | "open" | "broken" | "closed"
    close_code,             \* transport -> close code sent by the server, or 0
    ws_user,                \* transport -> user_id of its handler call, or 0
    pc,                     \* transport -> handler at "idle" | "loop" | "done"
    sent,                   \* transport -> frames written to it by the last step
    first_msg,              \* transport -> type of the first frame it received
    dropped,                \* the user a direct send of the last step found absent
    published,              \* channels the last step published on the bus
    deliveries_key,         \* Redis key deliveries:{user_id}: Miss or Hit
    db_active               \* store of record: user_id -> active orders

VARIABLES
    cache,                  \* Redis keyspace: key -> [val, ttl]
    reachable,              \* whether a call to Redis succeeds at the moment
    ret,                    \* what the last service call returned
    rl_pc,                  \* caller -> "idle", or "read" after the get
    rl_current,             \* caller -> the counter value its get returned
    rl_allowed,             \* calls allowed since the counter key appeared
    rl_undisturbed,         \* every call of this window reached Redis and
                            \* ran with no other call or expiry inside it
    db_location,            \* store of record: user_id -> position, or ""
    db_conversations,       \* store of record: user_id -> conversations saved
    recomputed,             \* aggregates the last call queried the store of
                            \* record for
    now,                    \* seconds on the clock
    changed_at,             \* when the store of record last changed
    rc_pc,                  \* a get_user_context on another node: "idle",
                            \* or "queried" after its database query
    rc_deliveries,          \* the delivery list that query returned
    bc_channel,             \* channel of the broadcast in progress, or ""
    bc_rest,                \* users the broadcast in progress has yet to
                            \* send to, in the order of its loop
    req                     \* transport -> the client frame waiting in its
                            \* receive_text

NumCallers == 2         \* concurrent callers of check_rate_limit
Limit == 3              \* the limit argument of check_rate_limit
Window == 60
Callers == 1..NumCallers

\* the rate limiter's callers and the history of the current window
ratevars == <<rl_pc, rl_current, rl_allowed, rl_undisturbed>>

\* the store of record next to db_active, and the queries made on it
domainvars == <<db_location, db_conversations, changed_at>>

\* the clock
clockvars == <<now>>

\* a get_user_context call in progress on another node
racevars == <<rc_pc, rc_deliveries>>

\* a broadcast in progress and the frames the clients have sent
stepvars == <<bc_channel, bc_rest, req>>

\* no frame waiting
NoRequest == [type |-> "none", channel |-> "", lat |-> "", lng |-> ""]

\* the cache layer
cachevars == <<cache, reachable, ret, recomputed, ratevars, domainvars,
               clockvars, racevars, stepvars>>

vars == <<active_connections, subscriptions, channel_subscribers,
          redis_subscriber_task, listener_pc, redis_client, ws, close_code,
          ws_user, pc, sent, first_msg, dropped, published,
          deliveries_key, db_active, cachevars>>

\* the manager's registries
registry == <<active_connections, subscriptions, channel_subscribers>>

\* ------------------------------------------------------------ dict helpers
Put(f, k, v) == [x \in DOMAIN f \cup {k} |-> IF x = k THEN v ELSE f[x]]
Remove(f, k) == [x \in DOMAIN f \ {k} |-> f[x]]
EmptyDict == [x \in {} |-> 0]

NoneSent == [t \in Transports |-> <<>>]

\* Python values
PyNone == [none |-> TRUE]
PyBool(b) == [bool |-> b]
PyInt(n) == [int |-> n]
PyStr(s) == [str |-> s]
PyList(l) == [list |-> l]
PyDict(d) == [dict |-> d]

\* the cache layer before any call: nothing stored, nothing returned
CacheIdle ==
    /\ cache = EmptyDict
    /\ reachable = TRUE
    /\ ret = [op |-> "", value |-> PyNone]
    /\ rl_pc = [c \in Callers |-> "idle"]
    /\ rl_current = [c \in Callers |-> PyNone]
    /\ rl_allowed = 0
    /\ rl_undisturbed = TRUE
    /\ db_location = [u \in Users |-> ""]
    /\ db_conversations = [u \in Users |-> 0]
    /\ recomputed = {}
    /\ now = 0
    /\ changed_at = 0
    /\ rc_pc = "idle"
    /\ rc_deliveries = PyNone
    /\ bc_channel = ""
    /\ bc_rest = <<>>
    /\ req = [t \in Transports |-> NoRequest]

\* The part of the state the manager's coroutines read and write; sent
\* collects the frames the running step writes.
Manager == [active_connections |-> active_connections,
            subscriptions |-> subscriptions,
            channel_subscribers |-> channel_subscribers,
            ws |-> ws,
            sent |-> NoneSent,
            published |-> {}]

\* ------------------------------------------------------- ConnectionManager
\* verify_token that accepts every credential
VerifyTokenAny(token) == TRUE

\* AuthService.verify_token: the payload (truthy) or None
VerifyToken(token) == token.valid

\* ConnectionManager.disconnect
Disconnect(s, user_id) ==
    IF user_id \in DOMAIN s.active_connections
    THEN LET chans == IF user_id \in DOMAIN s.subscriptions
                      THEN s.subscriptions[user_id] ELSE {}
             touched == chans \cap DOMAIN s.channel_subscribers
             discarded == [c \in DOMAIN s.channel_subscribers |->
                             IF c \in touched
                             THEN s.channel_subscribers[c] \ {user_id}
                             ELSE s.channel_subscribers[c]]
             kept == {c \in DOMAIN discarded : ~(c \in touched /\ discarded[c] = {})}
         IN [s EXCEPT !.channel_subscribers = [c \in kept |-> discarded[c]],
                      !.subscriptions = Remove(@, user_id),
                      !.active_connections = Remove(@, user_id)]
    ELSE s

\* send_personal_message that falls back to a superseded handle of the user
SendToStaleHandle(s, message, user_id) ==
    IF user_id \in DOMAIN s.active_connections
    THEN LET websocket == s.active_connections[user_id]
         IN IF s.ws[websocket] = "open"
            THEN [s EXCEPT !.sent[websocket] = Append(@, message)]
            ELSE Disconnect(s, user_id)
    ELSE LET stale == {t \in Transports : ws_user[t] = user_id /\ s.ws[t] = "open"}
         IN IF stale = {}
            THEN s
            ELSE [s EXCEPT !.sent[CHOOSE t \in stale : TRUE] = Append(@, message)]

\* ConnectionManager.send_personal_message: send_text raises on a transport
\* that is no longer open, and the handler of the exception disconnects.
SendPersonalMessage(s, message, user_id) ==
    IF user_id \in DOMAIN s.active_connections
    THEN LET websocket == s.active_connections[user_id]
         IN IF s.ws[websocket] = "open"
            THEN [s EXCEPT !.sent[websocket] = Append(@, message)]
            ELSE Disconnect(s, user_id)
    ELSE s

\* ConnectionManager.subscribe_to_channel
SubscribeToChannel(s, user_id, channel) ==
    IF user_id \notin DOMAIN s.subscriptions
    THEN s
    ELSE [s EXCEPT !.subscriptions[user_id] = @ \cup {channel},
                   !.channel_subscribers =
                       Put(@, channel,
                           (IF channel \in DOMAIN @ THEN @[channel] ELSE {})
                               \cup {user_id})]

\* unsubscribe_from_channel that keeps the key of an emptied channel
UnsubscribeKeepEmpty(s, user_id, channel) ==
    LET s1 == IF user_id \in DOMAIN s.subscriptions
              THEN [s EXCEPT !.subscriptions[user_id] = @ \ {channel}]
              ELSE s
    IN IF channel \in DOMAIN s1.channel_subscribers
       THEN [s1 EXCEPT !.channel_subscribers[channel] = @ \ {user_id}]
       ELSE s1

\* ConnectionManager.unsubscribe_from_channel
UnsubscribeFromChannel(s, user_id, channel) ==
    LET s1 == IF user_id \in DOMAIN s.subscriptions
              THEN [s EXCEPT !.subscriptions[user_id] = @ \ {channel}]
              ELSE s
    IN IF channel \in DOMAIN s1.channel_subscribers
       THEN LET rest == s1.channel_subscribers[channel] \ {user_id}
            IN IF rest = {}
               THEN [s1 EXCEPT !.channel_subscribers = Remove(@, channel)]
               ELSE [s1 EXCEPT !.channel_subscribers[channel] = rest]
       ELSE s1

\* the loop of broadcast_to_channel over the copied subscriber set
RECURSIVE SendEach(_, _, _)
SendEach(s, subscribers, message) ==
    IF subscribers = {}
    THEN s
    ELSE LET user_id == CHOOSE u \in subscribers : TRUE
         IN SendEach(SendPersonalMessage(s, message, user_id),
                     subscribers \ {user_id}, message)

\* ConnectionManager.broadcast_to_channel
BroadcastToChannel(s, channel, message) ==
    IF channel \in DOMAIN s.channel_subscribers
    THEN SendEach(s, s.channel_subscribers[channel], message)
    ELSE s

\* RedisService.get_cache of deliveries:{user_id} by a service whose client
\* may be None
GetActiveDeliveries(user_id) ==
    IF redis_client THEN deliveries_key[user_id] ELSE Miss

RECURSIVE SubscribeEach(_, _, _)
SubscribeEach(s, user_id, channels) ==
    IF channels = {}
    THEN s
    ELSE LET c == CHOOSE x \in channels : TRUE
         IN SubscribeEach(SubscribeToChannel(s, user_id, c), user_id, channels \ {c})

\* WebSocketHandler._setup_user_subscriptions
SetupUserSubscriptions(s, user_id) ==
    LET s1 == SubscribeToChannel(s, user_id, UserChannel(user_id))
        user_deliveries == GetActiveDeliveries(user_id)
        s2 == IF user_deliveries.hit /\ user_deliveries.value # {}
              THEN SubscribeEach(s1, user_id,
                                 {DeliveryChannel(o) : o \in user_deliveries.value})
              ELSE s1
    IN SubscribeToChannel(s2, user_id, SystemChannel)

\* ConnectionManager.connect, after the token has been verified: accept,
\* store the connection, send the confirmation.
Register(s, websocket, user_id) ==
    LET s1 == [s EXCEPT !.ws[websocket] = "open",
                        !.active_connections = Put(@, user_id, websocket),
                        !.subscriptions = Put(@, user_id, {})]
    IN SendPersonalMessage(s1, Msg("connection_confirmed", ""), user_id)

\* the new values of the variables a manager coroutine writes
Commit(s) ==
    /\ active_connections' = s.active_connections
    /\ subscriptions' = s.subscriptions
    /\ channel_subscribers' = s.channel_subscribers
    /\ ws' = s.ws
    /\ sent' = s.sent
    /\ published' = s.published
    /\ first_msg' = [t \in Transports |->
                        IF first_msg[t] = "" /\ s.sent[t] # <<>>
                        THEN Head(s.sent[t]).type
                        ELSE first_msg[t]]

\* a step that writes no frame
Quiet == sent' = NoneSent /\ published' = {} /\ UNCHANGED first_msg

\* what no connection-layer step writes
environment == <<redis_client, deliveries_key, db_active, cachevars>>

\* --------------------------------------------------------------- actions

\* transports are numbered in the order their handshakes arrive
NextTransport(websocket) ==
    /\ pc[websocket] = "idle"
    /\ \A t \in Transports : t < websocket => pc[t] # "idle"

\* handle_websocket up to its receive loop, with a credential that
\* verify_token refuses: connect closes the transport and returns False.
HandleWebsocketRejected(websocket, user_id, token) ==
    /\ NextTransport(websocket)
    /\ ~VerifyToken(token)
    /\ ws' = [ws EXCEPT ![websocket] = "closed"]
    /\ close_code' = [close_code EXCEPT ![websocket] = RejectCode]
    /\ ws_user' = [ws_user EXCEPT ![websocket] = user_id]
    /\ pc' = [pc EXCEPT ![websocket] = "done"]
    /\ Quiet
    /\ dropped' = {}
    /\ UNCHANGED <<registry, redis_subscriber_task, listener_pc, environment>>

\* handle_websocket up to its receive loop, with an accepted credential:
\* connect registers, confirms and starts the listener task, then the
\* default subscriptions are set up.
HandleWebsocketAccepted(websocket, user_id, token) ==
    /\ NextTransport(websocket)
    /\ VerifyToken(token)
    /\ Commit(SetupUserSubscriptions(Register(Manager, websocket, user_id),
                                     user_id))
    /\ IF redis_subscriber_task = "None"
       THEN /\ redis_subscriber_task' = "Task"
            /\ listener_pc' = IF redis_client THEN "listening" ELSE "returned"
       ELSE UNCHANGED <<redis_subscriber_task, listener_pc>>
    /\ ws_user' = [ws_user EXCEPT ![websocket] = user_id]
    /\ pc' = [pc EXCEPT ![websocket] = "loop"]
    /\ dropped' = {}
    /\ UNCHANGED <<close_code, environment>>

\* WebSocketHandler.handle_websocket, from the call to the first receive_text
HandleWebsocket(websocket, user_id, token) ==
    \/ HandleWebsocketRejected(websocket, user_id, token)
    \/ HandleWebsocketAccepted(websocket, user_id, token)

Receiving(t) == pc[t] = "loop" /\ ws[t] = "open"

\* _handle_client_message, type subscribe
ClientSubscribe(t, channel) ==
    /\ Receiving(t)
    /\ Commit(SendPersonalMessage(
                  SubscribeToChannel(Manager, ws_user[t], channel),
                  Msg("subscription_confirmed", channel), ws_user[t]))
    /\ dropped' = {}
    /\ UNCHANGED <<redis_subscriber_task, listener_pc, close_code, ws_user, pc,
                   environment>>

\* _handle_client_message, type unsubscribe
ClientUnsubscribe(t, channel) ==
    /\ Receiving(t)
    /\ Commit(SendPersonalMessage(
                  UnsubscribeFromChannel(Manager, ws_user[t], channel),
                  Msg("unsubscription_confirmed", channel), ws_user[t]))
    /\ dropped' = {}
    /\ UNCHANGED <<redis_subscriber_task, listener_pc, close_code, ws_user, pc,
                   environment>>

\* _handle_client_message, type ping
ClientPing(t) ==
    /\ Receiving(t)
    /\ Commit(SendPersonalMessage(Manager, Msg("pong", ""), ws_user[t]))
    /\ dropped' = {}
    /\ UNCHANGED <<redis_subscriber_task, listener_pc, close_code, ws_user, pc,
                   environment>>

\* a frame that json.loads refuses: the handler's except Exception branch
\* disconnects and returns, and the server closes the socket of a handler
\* that has returned
ClientProtocolError(t) ==
    /\ Receiving(t)
    /\ Commit([Disconnect(Manager, ws_user[t]) EXCEPT !.ws[t] = "closed"])
    /\ pc' = [pc EXCEPT ![t] = "done"]
    /\ dropped' = {}
    /\ UNCHANGED <<redis_subscriber_task, listener_pc, close_code, ws_user,
                   environment>>

\* the peer goes away: sends to the transport fail from now on
TransportClose(t) ==
    /\ ws[t] = "open"
    /\ ws' = [ws EXCEPT ![t] = "broken"]
    /\ Quiet
    /\ dropped' = {}
    /\ UNCHANGED <<registry, redis_subscriber_task, listener_pc, close_code,
                   ws_user, pc, environment>>

\* receive_text raises WebSocketDisconnect: the handler's cleanup
HandlerDisconnect(t) ==
    /\ pc[t] = "loop"
    /\ ws[t] = "broken"
    /\ Commit(Disconnect(Manager, ws_user[t]))
    /\ pc' = [pc EXCEPT ![t] = "done"]
    /\ dropped' = {}
    /\ UNCHANGED <<redis_subscriber_task, listener_pc, close_code, ws_user,
                   environment>>

\* _start_redis_subscriber: one pmessage of pubsub.listen(), on a channel
\* that matches the patterns the listener subscribed to
ListenerMessage(channel) ==
    /\ listener_pc = "listening"
    /\ Commit(BroadcastToChannel(Manager, channel,
                                 Msg("redis_update", channel)))
    /\ dropped' = {}
    /\ UNCHANGED <<redis_subscriber_task, listener_pc, close_code, ws_user, pc,
                   environment>>

\* _start_redis_subscriber: the stream raises; except, then finally
ListenerError ==
    /\ listener_pc = "listening"
    /\ redis_subscriber_task' = "None"
    /\ listener_pc' = "-"
    /\ Quiet
    /\ dropped' = {}
    /\ UNCHANGED <<registry, ws, close_code, ws_user, pc, environment>>

\* NotificationService.notify_new_delivery_assignment
NotifyNewDeliveryAssignment(user_id) ==
    /\ Commit(SendPersonalMessage(Manager, Msg("new_delivery_assigned", ""),
                                  user_id))
    /\ dropped' = IF user_id \in DOMAIN active_connections
                  THEN {} ELSE {user_id}
    /\ UNCHANGED <<redis_subscriber_task, listener_pc, close_code, ws_user, pc,
                   environment>>

\* RedisService.publish_delivery_update: the channel is always
\* delivery_updates:{order_id}; nothing is published without a client or
\* when the call raises
PublishDeliveryUpdate(s, order_id) ==
    IF redis_client /\ reachable
    THEN [s EXCEPT !.published = @ \cup {DeliveryChannel(order_id)}]
    ELSE s

\* the notification dict of notify_delivery_status_change
StatusChanged(order_id, user_id) ==
    [type |-> "delivery_status_changed", order_id |-> order_id,
     user_id |-> user_id]

\* NotificationService.notify_delivery_status_change: publish, then a
\* direct send to the user_id argument
NotifyDeliveryStatusChange(order_id, user_id) ==
    /\ Commit(SendPersonalMessage(PublishDeliveryUpdate(Manager, order_id),
                                  StatusChanged(order_id, user_id), user_id))
    /\ dropped' = {}
    /\ UNCHANGED <<redis_subscriber_task, listener_pc, close_code, ws_user, pc,
                   environment>>

\* NotificationService.notify_emergency_alert: a direct send to each user
\* of the list
NotifyEmergencyAlert(user_ids) ==
    /\ Commit(SendEach(Manager, user_ids, Msg("emergency_alert", "")))
    /\ dropped' = {}
    /\ UNCHANGED <<redis_subscriber_task, listener_pc, close_code, ws_user, pc,
                   environment>>

\* the loop of notify_system_maintenance over active_connections.keys():
\* a failed send disconnects its user, which changes the size of the dict
\* being iterated, and the next step of the iterator raises RuntimeError
RECURSIVE SendWhileUnchanged(_, _, _)
SendWhileUnchanged(s, order, message) ==
    IF order = <<>>
    THEN s
    ELSE LET s1 == SendPersonalMessage(s, message, Head(order))
         IN IF DOMAIN s1.active_connections = DOMAIN s.active_connections
            THEN SendWhileUnchanged(s1, Tail(order), message)
            ELSE s1

\* the orders in which a dict may hold the given keys
KeyOrders(keys) ==
    {o \in [1..Cardinality(keys) -> keys] :
        \A i, j \in 1..Cardinality(keys) : o[i] = o[j] => i = j}

\* NotificationService.notify_system_maintenance
NotifySystemMaintenance(order) ==
    /\ order \in KeyOrders(DOMAIN active_connections)
    /\ Commit(SendWhileUnchanged(Manager, order,
                                 Msg("system_maintenance", "")))
    /\ dropped' = {}
    /\ UNCHANGED <<redis_subscriber_task, listener_pc, close_code, ws_user, pc,
                   environment>>

\* ------------------------------------------------------------------ spec
\* ConnectionManager() before any handshake
ManagerInit ==
    /\ active_connections = EmptyDict
    /\ subscriptions = EmptyDict
    /\ channel_subscribers = EmptyDict
    /\ redis_subscriber_task = "None"
    /\ listener_pc = "-"
    /\ ws = [t \in Transports |-> "new"]
    /\ close_code = [t \in Transports |-> 0]
    /\ ws_user = [t \in Transports |-> 0]
    /\ pc = [t \in Transports |-> "idle"]
    /\ sent = NoneSent
    /\ dropped = {}
    /\ published = {}
    /\ first_msg = [t \in Transports |-> ""]

Init ==
    /\ ManagerInit
    /\ redis_client \in BOOLEAN
    /\ db_active = [u \in Users |-> IF u = 1 THEN Orders ELSE {}]
    /\ deliveries_key \in [Users -> {Miss} \cup {Hit(db_active[u]) : u \in Users}]
    /\ \A u \in Users : deliveries_key[u] \in {Miss, Hit(db_active[u])}
    /\ ~redis_client => \A u \in Users : deliveries_key[u] = Miss
    /\ CacheIdle

Next ==
    \/ \E t \in Transports, u \in Users, tok \in Tokens :
          HandleWebsocket(t, u, tok)
    \/ \E t \in Transports, c \in ClientChannels :
          \/ ClientSubscribe(t, c)
          \/ ClientUnsubscribe(t, c)
    \/ \E t \in Transports :
          \/ ClientPing(t)
          \/ ClientProtocolError(t)
          \/ TransportClose(t)
          \/ HandlerDisconnect(t)
    \/ \E c \in ListenerChannels : ListenerMessage(c)
    \/ ListenerError
    \/ \E u \in Users : NotifyNewDeliveryAssignment(u)
    \/ \E o \in Orders, u \in Users : NotifyDeliveryStatusChange(o, u)
    \/ \E user_ids \in SUBSET Users : NotifyEmergencyAlert(user_ids)
    \/ \E order \in UNION {KeyOrders(k) : k \in SUBSET Users} :
          NotifySystemMaintenance(order)

Spec == Init /\ [][Next]_vars

\* ---------------------------------------------------------------- claims
Accepted(t) == pc[t] # "idle" /\ close_code[t] # RejectCode
Registered(user_id, t) ==
    user_id \in DOMAIN active_connections /\ active_connections[user_id] = t
\* the transport of the latest successful connect of user_id is t
LatestConnect(user_id, t) ==
    /\ Accepted(t)
    /\ ws_user[t] = user_id
    /\ \A t2 \in Transports : (Accepted(t2) /\ ws_user[t2] = user_id) => t2 <= t

\* C1: after two successful connects of one user on two transports, the
\* second transport is the registered (broadcast- and sendDirect-reachable)
\* handle of that user for as long as it is open.
C1_SecondHandleStaysReachable ==
    \A u \in Users : \A t1, t2 \in Transports :
        (/\ t1 < t2
         /\ Accepted(t1) /\ ws_user[t1] = u
         /\ LatestConnect(u, t2)
         /\ ws[t2] = "open")
        => Registered(u, t2)

\* C2: a successful connect of a user who is already registered leaves the
\* old transport closed and no channel naming the user outside the new
\* connection's own subscriptions.
C2_SupersedeClosesOld ==
    [][\A t \in Transports, u \in Users, tok \in Tokens :
          (/\ HandleWebsocketAccepted(t, u, tok)
           /\ u \in DOMAIN active_connections)
          => /\ ws'[active_connections[u]] # "open"
             /\ \A c \in DOMAIN channel_subscribers' :
                   u \in channel_subscribers'[c] => c \in subscriptions'[u]]_vars

\* C3: the forward and the reverse index of the subscription graph agree.
C3_IndexesAgree ==
    \A u \in Users :
        \A c \in {UserChannel(x) : x \in Users} \cup ClientChannels
                 \cup DOMAIN channel_subscribers :
            (c \in DOMAIN channel_subscribers /\ u \in channel_subscribers[c])
            <=> (u \in DOMAIN subscriptions /\ c \in subscriptions[u])

\* C4: a broadcast on a channel reaches every registered, live user whose
\* session subscribed to the channel, and no transport whose current
\* session did not.
C4_BroadcastExactlySubscribers ==
    [][\A c \in ListenerChannels :
          ListenerMessage(c)
          => /\ \A u \in DOMAIN subscriptions :
                   (/\ c \in subscriptions[u]
                    /\ u \in DOMAIN active_connections
                    /\ ws[active_connections[u]] = "open")
                   => sent'[active_connections[u]] = <<Msg("redis_update", c)>>
             /\ \A t \in Transports :
                   sent'[t] # <<>>
                   => \E u \in DOMAIN subscriptions :
                         Registered(u, t) /\ c \in subscriptions[u]]_vars

\* C5: in a broadcast, a subscriber whose send fails is removed from the
\* connection map and from every channel's subscriber set, and every other
\* subscriber receives the message and stays registered.
C5_FailedSendIsolated ==
    [][\A c \in ListenerChannels :
          (ListenerMessage(c) /\ c \in DOMAIN channel_subscribers)
          => \A u \in channel_subscribers[c] \cap DOMAIN active_connections :
                IF ws[active_connections[u]] = "open"
                THEN /\ sent'[active_connections[u]] = <<Msg("redis_update", c)>>
                     /\ u \in DOMAIN active_connections'
                     /\ active_connections'[u] = active_connections[u]
                ELSE /\ u \notin DOMAIN active_connections'
                     /\ \A c2 \in DOMAIN channel_subscribers' :
                           u \notin channel_subscribers'[c2]]_vars

\* C6: when a receive loop terminates, the user of that connection is left
\* in no channel's subscriber set, except for subscriptions a registered
\* connection of that user holds.
C6_TerminationCleansEdges ==
    [][\A t \in Transports :
          (pc[t] = "loop" /\ pc'[t] = "done")
          => \A c \in DOMAIN channel_subscribers' :
                ws_user[t] \in channel_subscribers'[c]
                => /\ ws_user[t] \in DOMAIN subscriptions'
                   /\ c \in subscriptions'[ws_user[t]]]_vars

\* C7: no entry of the channel index has an empty subscriber set.
C7_NoEmptyChannel ==
    \A c \in DOMAIN channel_subscribers : channel_subscribers[c] # {}

\* an unsubscribe has just removed the last subscriber of a channel, and
\* the channel is gone from the index while other channels remain
C7_Witness ==
    \E t \in Transports :
        /\ sent[t] = <<Msg("unsubscription_confirmed", DeliveryChannel("ORD1"))>>
        /\ DeliveryChannel("ORD1") \notin DOMAIN channel_subscribers
        /\ SystemChannel \in DOMAIN channel_subscribers

\* C8: a direct send to a user with no connection changes nothing and
\* writes no frame, and every direct notification a transport receives is
\* written by the step of a send to the user registered on it at that
\* moment (nothing is kept and delivered later).
C8_AbsentSendIsNoOp ==
    [][/\ \A u \in Users :
             (NotifyNewDeliveryAssignment(u) /\ u \notin DOMAIN active_connections)
             => /\ sent' = NoneSent
                /\ UNCHANGED <<registry, redis_subscriber_task, listener_pc, ws,
                               close_code, ws_user, pc, first_msg, environment>>
       /\ \A t \in Transports :
             (\E i \in 1..Len(sent'[t]) : sent'[t][i].type = "new_delivery_assigned")
             => \E u \in DOMAIN active_connections :
                   active_connections[u] = t /\ NotifyNewDeliveryAssignment(u)]_vars

\* a direct send has just found its user absent while another user is
\* connected and subscribed
C8_Witness ==
    \E u \in Users :
        /\ dropped = {u}
        /\ u \notin DOMAIN active_connections
        /\ \E v \in DOMAIN subscriptions : v # u /\ subscriptions[v] # {}

\* C9: a handshake whose credential fails verification closes the transport
\* with the rejection code, writes no frame, leaves the connection map, the
\* subscription graph and the listener as they were, and its handler ends
\* without entering the receive loop (and an ended handler stays ended).
C9_RejectedConnectRegistersNothing ==
    [][/\ \A t \in Transports, u \in Users, tok \in Tokens :
             (~tok.valid /\ HandleWebsocket(t, u, tok))
             => /\ ws'[t] = "closed"
                /\ close_code'[t] = RejectCode
                /\ pc'[t] = "done"
                /\ sent' = NoneSent
                /\ UNCHANGED <<registry, redis_subscriber_task, listener_pc>>
       /\ \A t \in Transports : pc[t] = "done" => pc'[t] = "done"]_vars

\* a handshake was rejected after another user had connected, whose
\* registration is still in place
C9_Witness ==
    \E t1, t2 \in Transports :
        /\ t1 < t2
        /\ close_code[t2] = RejectCode /\ ws[t2] = "closed" /\ pc[t2] = "done"
        /\ Registered(ws_user[t1], t1)
        /\ subscriptions[ws_user[t1]] # {}
        /\ redis_subscriber_task = "Task"

\* C10: a successful handshake leaves connection_confirmed as the first
\* frame of the connection and the user subscribed to its notification
\* channel, the system channel and the channel of each active delivery.
C10_ConfirmedThenDefaultSubscriptions ==
    [][\A t \in Transports, u \in Users, tok \in Tokens :
          HandleWebsocketAccepted(t, u, tok)
          => /\ first_msg'[t] = "connection_confirmed"
             /\ u \in DOMAIN subscriptions'
             /\ {UserChannel(u), SystemChannel}
                    \cup {DeliveryChannel(o) : o \in db_active[u]}
                \subseteq subscriptions'[u]]_vars

\* C11: when the Notification Service emits statusChanged for an order, every
\* connected user subscribed to delivery_updates:{order} receives exactly one
\* delivery_status_changed frame for that order (written by the notify step
\* or relayed by the listener from the published event), a frame the
\* listener relays from that channel has type delivery_status_changed, and
\* a connected user not subscribed to the channel receives nothing.
C11_StatusChangeToSubscribersOnly ==
    [][/\ \A o \in Orders, u \in Users :
             NotifyDeliveryStatusChange(o, u)
             => \A a \in DOMAIN active_connections :
                   IF /\ a \in DOMAIN subscriptions
                      /\ DeliveryChannel(o) \in subscriptions[a]
                   THEN ws[active_connections[a]] = "open"
                        => \/ sent'[active_connections[a]]
                                 = <<StatusChanged(o, u)>>
                           \/ /\ sent'[active_connections[a]] = <<>>
                              /\ DeliveryChannel(o) \in published'
                              /\ listener_pc = "listening"
                   ELSE sent'[active_connections[a]] = <<>>
       /\ \A o \in Orders :
             ListenerMessage(DeliveryChannel(o))
             => \A t \in Transports : \A i \in 1..Len(sent'[t]) :
                   sent'[t][i].type = "delivery_status_changed"]_vars

\* the connected users a notify step addresses whose transport is open
LiveAmong(user_ids) ==
    {u \in user_ids \cap DOMAIN active_connections :
        ws[active_connections[u]] = "open"}

\* C20: each of the four notify operations publishes on the bus (when the
\* service has a Redis client) and writes a frame to every addressed local
\* user whose transport is open.
C20_NotifyPublishesAndSends ==
    [][/\ \A u \in Users :
             NotifyNewDeliveryAssignment(u)
             => /\ redis_client => published' # {}
                /\ \A a \in LiveAmong({u}) :
                      sent'[active_connections[a]] # <<>>
       /\ \A o \in Orders, u \in Users :
             NotifyDeliveryStatusChange(o, u)
             => /\ redis_client => published' # {}
                /\ \A a \in LiveAmong({u}) :
                      sent'[active_connections[a]] # <<>>
       /\ \A user_ids \in SUBSET Users :
             NotifyEmergencyAlert(user_ids)
             => /\ redis_client => published' # {}
                /\ \A a \in LiveAmong(user_ids) :
                      sent'[active_connections[a]] # <<>>
       /\ \A order \in UNION {KeyOrders(k) : k \in SUBSET Users} :
             NotifySystemMaintenance(order)
             => /\ redis_client => published' # {}
                /\ \A a \in LiveAmong(Users) :
                      sent'[active_connections[a]] # <<>>]_vars

\* ================================================================ cache
\* RedisService. A Redis string is [raw |-> s], characters that are not a
\* JSON text, or [json |-> v], the JSON text of the value v.
EmptyText == [raw |-> ""]
JsonDumps(value) == [json |-> value]
IsStr(value) == DOMAIN value = {"str"}

\* set_cache line 38: a str is stored as it is, anything else as its JSON
Serialize(value) == IF IsStr(value) THEN value.str ELSE JsonDumps(value)

\* get_cache lines 52-55: json.loads, and the string itself when that
\* raises JSONDecodeError
Deserialize(text) ==
    IF DOMAIN text = {"json"} THEN text.json ELSE PyStr(text)

\* str(n) in the f-strings that build keys
DigitChar(d) == <<"0", "1", "2", "3", "4", "5", "6", "7", "8", "9">>[d + 1]
RECURSIVE Digits(_)
Digits(n) ==
    IF n < 10 THEN <<DigitChar(n)>>
    ELSE Digits(n \div 10) \o <<DigitChar(n % 10)>>

\* A key or a pattern is the sequence of its characters; the literal prefix
\* up to the colon is kept as one symbol.
Key(prefix, id) == <<prefix>> \o Digits(id)

\* matching that takes the pattern for a prefix of the key
PrefixMatch(pattern, key) ==
    /\ Len(pattern) <= Len(key)
    /\ SubSeq(key, 1, Len(pattern)) = pattern

\* the glob matching of the Redis KEYS command: * and ?
RECURSIVE GlobMatch(_, _)
GlobMatch(pattern, key) ==
    IF pattern = <<>>
    THEN key = <<>>
    ELSE IF Head(pattern) = "*"
         THEN \/ GlobMatch(Tail(pattern), key)
              \/ key # <<>> /\ GlobMatch(pattern, Tail(key))
         ELSE /\ key # <<>>
              /\ Head(pattern) = "?" \/ Head(pattern) = Head(key)
              /\ GlobMatch(Tail(pattern), Tail(key))

\* a call reaches Redis: the service has a client and the call does not
\* raise (every redis exception is caught and turned into the default)
Up == redis_client /\ reachable

\* RedisService.set_cache
SetCacheOp(c, key, value, ttl) ==
    IF Up
    THEN [cache |-> Put(c, key, [val |-> Serialize(value), ttl |-> ttl]),
          ret |-> PyBool(TRUE)]
    ELSE [cache |-> c, ret |-> PyBool(FALSE)]

\* get_cache that returns what is stored without asking whether Redis can
\* be reached
GetCacheStored(c, key) ==
    IF key \in DOMAIN c /\ c[key].val # EmptyText
    THEN Deserialize(c[key].val)
    ELSE PyNone

\* RedisService.get_cache
GetCacheOp(c, key) ==
    IF Up /\ key \in DOMAIN c /\ c[key].val # EmptyText
    THEN Deserialize(c[key].val)
    ELSE PyNone

\* RedisService.delete_cache
DeleteCacheOp(c, pattern) ==
    IF Up
    THEN LET keys == {k \in DOMAIN c : GlobMatch(pattern, k)}
         IN [cache |-> [k \in DOMAIN c \ keys |-> c[k]],
             ret |-> PyInt(Cardinality(keys))]
    ELSE [cache |-> c, ret |-> PyInt(0)]

\* ------------------------------------------- RedisService called directly
DefaultTTL == 3600
TestIds == {42, 43, 420}
TestKeys == {Key("deliveries:", id) : id \in TestIds}
TestPatterns == TestKeys \cup {<<"deliveries:", "*">>,
                               <<"deliveries:", "4", "?">>}
\* a str that is no JSON text, the str "1", the int 1, and an empty list
TestValues == {PyStr([raw |-> "hello"]), PyStr(JsonDumps(PyInt(1))),
               PyInt(1), PyList(<<>>)}

\* what no direct call of a RedisService method writes
timeless == <<registry, redis_subscriber_task, listener_pc, ws, close_code,
              ws_user, pc, sent, first_msg, dropped, published, redis_client,
              deliveries_key, db_active, ratevars, domainvars, racevars,
              stepvars>>
outside == <<timeless, clockvars>>

SetCache(key, value, ttl) ==
    LET r == SetCacheOp(cache, key, value, ttl)
    IN /\ cache' = r.cache
       /\ ret' = [op |-> "set_cache", value |-> r.ret]
       /\ recomputed' = {}
       /\ UNCHANGED <<reachable, outside>>

GetCache(key) ==
    /\ ret' = [op |-> "get_cache", value |-> GetCacheOp(cache, key)]
    /\ recomputed' = {}
    /\ UNCHANGED <<cache, reachable, outside>>

DeleteCache(pattern) ==
    LET r == DeleteCacheOp(cache, pattern)
    IN /\ cache' = r.cache
       /\ ret' = [op |-> "delete_cache", value |-> r.ret]
       /\ recomputed' = {}
       /\ UNCHANGED <<reachable, outside>>

\* Redis removes a key whose time to live has run out
Expire(key) ==
    /\ key \in DOMAIN cache
    /\ cache[key].ttl > 0
    /\ cache' = Remove(cache, key)
    /\ ret' = [op |-> "", value |-> PyNone]
    /\ recomputed' = {}
    /\ UNCHANGED <<reachable, outside>>

\* the connection to Redis is lost, and calls raise ConnectionError
ConnectionLost ==
    /\ reachable
    /\ reachable' = FALSE
    /\ ret' = [op |-> "", value |-> PyNone]
    /\ recomputed' = {}
    /\ UNCHANGED <<cache, outside>>

ConnectionRestored ==
    /\ ~reachable
    /\ reachable' = TRUE
    /\ ret' = [op |-> "", value |-> PyNone]
    /\ recomputed' = {}
    /\ UNCHANGED <<cache, outside>>

\* RedisService(): ping succeeds, or the client is set to None
CacheInit ==
    /\ ManagerInit
    /\ redis_client \in BOOLEAN
    /\ db_active = [u \in Users |-> {}]
    /\ deliveries_key = [u \in Users |-> Miss]
    /\ CacheIdle

CacheNext ==
    \/ \E key \in TestKeys, value \in TestValues :
          SetCache(key, value, DefaultTTL)
    \/ \E key \in TestKeys : GetCache(key)
    \/ \E pattern \in TestPatterns : DeleteCache(pattern)
    \/ \E key \in TestKeys : Expire(key)
    \/ ConnectionLost
    \/ ConnectionRestored

CacheSpec == CacheInit /\ [][CacheNext]_vars

\* C13: for every key and every value that set accepts, a get issued after
\* set(key, v, ttl) and before the ttl elapses returns a value equal to v,
\* and a get issued after the key has expired returns miss.
C13_GetReturnsWhatWasSet ==
    [][/\ \A key \in TestKeys, v \in TestValues :
             (SetCache(key, v, DefaultTTL) /\ Up)
             => GetCacheOp(cache', key) = v
       /\ \A key \in TestKeys :
             Expire(key) => GetCacheOp(cache', key) = PyNone]_vars

\* the keys of the test set that a pattern of the test set denotes
ExpectedMatches(pattern) ==
    IF pattern \in TestKeys
    THEN {pattern}
    ELSE IF pattern = <<"deliveries:", "*">>
         THEN TestKeys
         ELSE {Key("deliveries:", 42), Key("deliveries:", 43)}

\* C14: delete_cache(p) removes exactly the stored keys that match p,
\* returns their number, and leaves every other key with its value and its
\* expiry; deleting deliveries:42 leaves deliveries:43 and deliveries:420.
C14_DeleteRemovesExactlyMatching ==
    [][\A pattern \in TestPatterns :
          (DeleteCache(pattern) /\ Up)
          => LET gone == DOMAIN cache \cap ExpectedMatches(pattern)
             IN /\ DOMAIN cache' = DOMAIN cache \ gone
                /\ \A key \in DOMAIN cache' : cache'[key] = cache[key]
                /\ ret'.value = PyInt(Cardinality(gone))]_vars

\* deliveries:42 has just been deleted, alone, with deliveries:43 and
\* deliveries:420 stored
C14_Witness ==
    /\ ret = [op |-> "delete_cache", value |-> PyInt(1)]
    /\ Key("deliveries:", 42) \notin DOMAIN cache
    /\ Key("deliveries:", 43) \in DOMAIN cache
    /\ Key("deliveries:", 420) \in DOMAIN cache

\* ------------------------------------------- RedisService.check_rate_limit
\* rate_limit:{user_id}:{action} of one user and one action
RateKey == Key("rate_limit:", 1) \o <<":chat">>

\* the comparison that lets a call through with a limit it has passed
AllowsAtLimit(current) == current.int <= Limit

\* line 178: int(current) < limit
Allows(current) == current.int < Limit

\* INCR: add one to the stored number and keep its expiry; a missing key
\* is created as 1 with no expiry
Incr(c, key) ==
    IF key \in DOMAIN c
    THEN [c EXCEPT ![key].val = JsonDumps(PyInt(Deserialize(@).int + 1))]
    ELSE Put(c, key, [val |-> JsonDumps(PyInt(1)), ttl |-> 0])

\* one more allowed call in the history of the window
Allowed(result) ==
    IF result /\ rl_allowed < Limit + NumCallers
    THEN rl_allowed + 1 ELSE rl_allowed

rateframe == <<registry, redis_subscriber_task, listener_pc, ws, close_code,
               ws_user, pc, sent, first_msg, dropped, published,
               redis_client, deliveries_key, db_active, reachable,
               domainvars, clockvars, racevars, stepvars>>

\* check_rate_limit up to the reply of redis_client.get(key); with no
\* client, or when the get raises, the call returns True
RateLimitRead(c) ==
    /\ rl_pc[c] = "idle"
    /\ IF Up
       THEN /\ rl_pc' = [rl_pc EXCEPT ![c] = "read"]
            /\ rl_current' = [rl_current EXCEPT ![c] =
                                 IF RateKey \in DOMAIN cache
                                 THEN Deserialize(cache[RateKey].val)
                                 ELSE PyNone]
            /\ ret' = [op |-> "", value |-> PyNone]
            /\ recomputed' = {}
            /\ rl_undisturbed' = (rl_undisturbed /\
                                  \A d \in Callers : rl_pc[d] = "idle")
            /\ UNCHANGED rl_allowed
       ELSE /\ ret' = [op |-> "check_rate_limit", value |-> PyBool(TRUE)]
            /\ recomputed' = {}
            /\ rl_allowed' = Allowed(TRUE)
            /\ rl_undisturbed' = FALSE
            /\ UNCHANGED <<rl_pc, rl_current>>
    /\ UNCHANGED <<cache, rateframe>>

\* check_rate_limit from the reply of the get to the return: setex, incr
\* or a refusal; when the write raises, the call returns True
RateLimitFinish(c) ==
    /\ rl_pc[c] = "read"
    /\ LET current == rl_current[c]
           result == ~Up \/ current = PyNone \/ Allows(current)
       IN /\ cache' = IF ~Up \/ ~result
                      THEN cache
                      ELSE IF current = PyNone
                           THEN Put(cache, RateKey,
                                    [val |-> JsonDumps(PyInt(1)),
                                     ttl |-> Window])
                           ELSE Incr(cache, RateKey)
          /\ ret' = [op |-> "check_rate_limit", value |-> PyBool(result)]
          /\ recomputed' = {}
          /\ rl_allowed' = Allowed(result)
          /\ rl_undisturbed' = (rl_undisturbed /\ Up)
    /\ rl_pc' = [rl_pc EXCEPT ![c] = "idle"]
    /\ rl_current' = [rl_current EXCEPT ![c] = PyNone]
    /\ UNCHANGED rateframe

\* the window ends: Redis removes the counter key when its expiry is due
RateWindowExpires ==
    /\ RateKey \in DOMAIN cache
    /\ cache[RateKey].ttl > 0
    /\ cache' = Remove(cache, RateKey)
    /\ rl_allowed' = 0
    /\ rl_undisturbed' = \A d \in Callers : rl_pc[d] = "idle"
    /\ ret' = [op |-> "", value |-> PyNone]
    /\ recomputed' = {}
    /\ UNCHANGED <<rl_pc, rl_current, rateframe>>

RateNext ==
    \/ \E c \in Callers : RateLimitRead(c)
    \/ \E c \in Callers : RateLimitFinish(c)
    \/ RateWindowExpires
    \/ ConnectionLost
    \/ ConnectionRestored

RateSpec == CacheInit /\ [][RateNext]_vars

\* C12: with limit 3, the calls of one window that run one after the other
\* against a reachable store are allowed while fewer than 3 calls of the
\* window have been allowed and refused from then on (true, true, true,
\* false, false, ...), and the first call after the window has elapsed,
\* which finds no counter key, is allowed.
C12_WindowAllowsUpToLimit ==
    [][\A c \in Callers :
          (RateLimitFinish(c) /\ Up /\ rl_undisturbed)
          => /\ ret'.value = PyBool(rl_allowed < Limit)
             /\ RateKey \notin DOMAIN cache => ret'.value = PyBool(TRUE)
             /\ rl_allowed = 0 <=> RateKey \notin DOMAIN cache]_vars

\* the fourth call of a window has just been refused after three calls of
\* the window were allowed
C12_Witness ==
    /\ ret = [op |-> "check_rate_limit", value |-> PyBool(FALSE)]
    /\ rl_undisturbed
    /\ rl_allowed = Limit
    /\ RateKey \in DOMAIN cache /\ cache[RateKey].ttl = Window

\* ======================================================= DeliveryService
MaxConversations == 1   \* conversations saved per user
ContextTTL == 1800
DeliveriesTTL == 600
LocationTTL == 300
SuggestionsTTL == 300
Positions == {"p1"}

ContextKey(user_id) == Key("context:", user_id)
DeliveriesKey(user_id) == Key("deliveries:", user_id)
LocationKey(user_id) == Key("location:", user_id)
SuggestionsKey(user_id) == Key("suggestions:", user_id)

\* the truth value Python gives a value in an if
Truthy(value) ==
    IF DOMAIN value = {"none"} THEN FALSE
    ELSE IF DOMAIN value = {"bool"} THEN value.bool
    ELSE IF DOMAIN value = {"int"} THEN value.int # 0
    ELSE IF DOMAIN value = {"str"} THEN value.str # EmptyText
    ELSE IF DOMAIN value = {"list"} THEN Len(value.list) > 0
    ELSE DOMAIN value.dict # {}

RECURSIVE SetToSeq(_)
SetToSeq(set) ==
    IF set = {} THEN <<>>
    ELSE LET x == CHOOSE y \in set : TRUE
         IN <<x>> \o SetToSeq(set \ {x})

\* the query for the user's deliveries in an active status
ActiveDeliveries(user_id) == PyList(SetToSeq(db_active[user_id]))

\* the owner of each delivery in the store of record
Owner(order_id) == IF order_id = "ORD1" THEN 1 ELSE 2

\* user.current_location_lat / lng as a dict, when both are set
DbLocation(user_id) ==
    IF db_location[user_id] = "" THEN PyNone
    ELSE PyDict([pos |-> db_location[user_id]])

\* location_data of RedisService.update_user_location
LocationData(user_id, pos) == PyDict([pos |-> pos, user_id |-> user_id])

\* the context dict assembled by get_user_context
Context(active_deliveries, recent, location) ==
    PyDict([active_deliveries |-> active_deliveries,
            recent_queries |-> recent,
            current_location |-> location])

\* the context a computation from the store of record alone yields
FreshContext(user_id) ==
    Context(ActiveDeliveries(user_id), db_conversations[user_id],
            DbLocation(user_id))

\* DeliveryService.get_user_context
GetUserContextOp(c, user_id) ==
    LET cached_context == GetCacheOp(c, ContextKey(user_id))
    IN IF Truthy(cached_context)
       THEN [cache |-> c, ret |-> cached_context, recomputed |-> {}]
       ELSE LET cached == GetCacheOp(c, DeliveriesKey(user_id))
                miss == ~Truthy(cached)
                active_deliveries ==
                    IF miss THEN ActiveDeliveries(user_id) ELSE cached
                c1 == IF miss
                      THEN SetCacheOp(c, DeliveriesKey(user_id),
                                      active_deliveries, DeliveriesTTL).cache
                      ELSE c
                current_location == GetCacheOp(c1, LocationKey(user_id))
                context ==
                    Context(active_deliveries, db_conversations[user_id],
                            IF Truthy(current_location)
                            THEN current_location
                            ELSE DbLocation(user_id))
            IN [cache |-> SetCacheOp(c1, ContextKey(user_id), context,
                                     ContextTTL).cache,
                ret |-> context,
                recomputed |-> {"context"} \cup
                               IF miss THEN {"deliveries"} ELSE {}]

\* DeliveryService.get_delivery_suggestions
GetDeliverySuggestionsOp(c, user_id) ==
    LET cached_suggestions == GetCacheOp(c, SuggestionsKey(user_id))
    IN IF Truthy(cached_suggestions)
       THEN [cache |-> c, ret |-> cached_suggestions, recomputed |-> {}]
       ELSE LET cached == GetCacheOp(c, DeliveriesKey(user_id))
                active_count ==
                    IF cached = PyNone
                    THEN Cardinality(db_active[user_id])
                    ELSE Len(cached.list)
                suggestions ==
                    PyList(IF active_count > 0
                           THEN <<"Update delivery status">>
                           ELSE <<"Check for new delivery assignments">>)
            IN [cache |-> SetCacheOp(c, SuggestionsKey(user_id),
                                     suggestions, SuggestionsTTL).cache,
                ret |-> suggestions,
                recomputed |-> {"suggestions"} \cup
                               IF cached = PyNone
                               THEN {"deliveries"} ELSE {}]

\* what no DeliveryService call writes
domainframe == <<registry, redis_subscriber_task, listener_pc, ws,
                 close_code, ws_user, pc, sent, first_msg, dropped,
                 redis_client, deliveries_key, reachable, ratevars,
                 clockvars, racevars, stepvars>>

\* the users whose calls are followed; the other users' keys are stored
\* from earlier calls
Actors == {1}

GetUserContext(user_id) ==
    LET r == GetUserContextOp(cache, user_id)
    IN /\ cache' = r.cache
       /\ ret' = [op |-> "get_user_context", value |-> r.ret]
       /\ recomputed' = r.recomputed
       /\ published' = {}
       /\ UNCHANGED <<db_active, domainvars, domainframe>>

GetDeliverySuggestions(user_id) ==
    LET r == GetDeliverySuggestionsOp(cache, user_id)
    IN /\ cache' = r.cache
       /\ ret' = [op |-> "get_delivery_suggestions", value |-> r.ret]
       /\ recomputed' = r.recomputed
       /\ published' = {}
       /\ UNCHANGED <<db_active, domainvars, domainframe>>

\* the pattern that deletes the deliveries key of every user
DeliveriesOfAll(user_id) == <<"deliveries:", "*">>

\* RedisService.invalidate_user_deliveries: the pattern is the key
DeliveriesPattern(user_id) == DeliveriesKey(user_id)

\* DeliveryService.update_delivery_status: ValueError when the user has no
\* such delivery; otherwise commit, invalidate deliveries and context,
\* publish
UpdateDeliveryStatus(user_id, order_id, new_status) ==
    /\ IF Owner(order_id) # user_id
       THEN /\ ret' = [op |-> "update_delivery_status",
                       value |-> PyStr([raw |-> "ValueError"])]
            /\ published' = {}
            /\ UNCHANGED <<cache, db_active, changed_at>>
       ELSE /\ changed_at' = now
            /\ db_active' =
                [db_active EXCEPT ![user_id] =
                    IF new_status = "delivered"
                    THEN @ \ {order_id} ELSE @ \cup {order_id}]
            /\ cache' = DeleteCacheOp(
                           DeleteCacheOp(cache,
                                         DeliveriesPattern(user_id)).cache,
                           ContextKey(user_id)).cache
            /\ published' = PublishDeliveryUpdate(Manager, order_id).published
            /\ ret' = [op |-> "update_delivery_status",
                       value |-> PyStr([raw |-> order_id])]
    /\ recomputed' = {}
    /\ UNCHANGED <<db_location, db_conversations, domainframe>>

\* DeliveryService.save_conversation
SaveConversation(user_id) ==
    /\ db_conversations[user_id] < MaxConversations
    /\ db_conversations' = [db_conversations EXCEPT ![user_id] = @ + 1]
    /\ cache' = DeleteCacheOp(cache, ContextKey(user_id)).cache
    /\ ret' = [op |-> "save_conversation", value |-> PyNone]
    /\ recomputed' = {}
    /\ published' = {}
    /\ UNCHANGED <<db_active, db_location, changed_at, domainframe>>

\* DeliveryService.update_user_location: Redis, then the store of record,
\* then the context key
UpdateUserLocation(user_id, pos) ==
    /\ db_location' = [db_location EXCEPT ![user_id] = pos]
    /\ cache' = DeleteCacheOp(
                   SetCacheOp(cache, LocationKey(user_id),
                              LocationData(user_id, pos), LocationTTL).cache,
                   ContextKey(user_id)).cache
    /\ ret' = [op |-> "update_user_location", value |-> PyNone]
    /\ recomputed' = {}
    /\ published' = {}
    /\ UNCHANGED <<db_active, db_conversations, changed_at, domainframe>>

\* WebSocketHandler._handle_client_message, type location_update: Redis
\* and a publish, nothing else
HandleLocationUpdate(user_id, pos) ==
    /\ cache' = SetCacheOp(cache, LocationKey(user_id),
                           LocationData(user_id, pos), LocationTTL).cache
    /\ published' =
          PublishDeliveryUpdate(Manager,
                                IF user_id = 1 THEN "location_updates:1"
                                ELSE "location_updates:2").published
    /\ ret' = [op |-> "location_update", value |-> PyNone]
    /\ recomputed' = {}
    /\ UNCHANGED <<db_active, domainvars, domainframe>>

DomainInit ==
    /\ ManagerInit
    /\ redis_client \in BOOLEAN
    /\ db_active \in {[u \in Users |-> IF u = 1 THEN a ELSE {}] :
                        a \in SUBSET Orders}
    /\ deliveries_key = [u \in Users |-> Miss]
    /\ CacheIdle

DomainNext ==
    \/ \E u \in Users : GetUserContext(u)
    \/ \E u \in Actors : GetDeliverySuggestions(u)
    \/ \E u \in Users, o \in Orders, st \in {"in_transit", "delivered"} :
          UpdateDeliveryStatus(u, o, st)
    \/ \E u \in Actors : SaveConversation(u)
    \/ \E u \in Actors, pos \in Positions : UpdateUserLocation(u, pos)
    \/ \E u \in Actors, pos \in Positions : HandleLocationUpdate(u, pos)
    \/ \E key \in {ContextKey(u) : u \in Users}
                  \cup {DeliveriesKey(u) : u \in Users}
                  \cup {LocationKey(u) : u \in Actors}
                  \cup {SuggestionsKey(u) : u \in Actors} : Expire(key)
    \/ ConnectionLost
    \/ ConnectionRestored

DomainSpec == DomainInit /\ [][DomainNext]_vars

\* ---------------------------------------------------------------- claims
DomainKeys ==
    UNION {{ContextKey(u), DeliveriesKey(u), LocationKey(u),
            SuggestionsKey(u)} : u \in Users}

\* C15: while the Cache Store cannot be reached (no client since start-up,
\* or calls failing from some point on), set, get, delete and publish
\* return failure, miss, 0 and nothing published without an error and
\* without touching the keyspace, and get_user_context returns the context
\* computed from the store of record.
C15_UnreachableDegrades ==
    [][~Up =>
         /\ \A key \in DomainKeys :
               /\ SetCacheOp(cache, key, PyInt(1), DefaultTTL)
                     = [cache |-> cache, ret |-> PyBool(FALSE)]
               /\ GetCacheOp(cache, key) = PyNone
               /\ DeleteCacheOp(cache, key)
                     = [cache |-> cache, ret |-> PyInt(0)]
         /\ \A o \in Orders :
               PublishDeliveryUpdate(Manager, o).published = {}
         /\ \A u \in Users :
               GetUserContext(u)
               => /\ ret'.value = FreshContext(u)
                  /\ cache' = cache]_vars

\* get_user_context has just returned while Redis, reached earlier, cannot
\* be reached, and the keyspace still holds a context that differs from
\* the one returned
C15_Witness ==
    /\ ret.op = "get_user_context"
    /\ redis_client /\ ~reachable
    /\ ContextKey(1) \in DOMAIN cache
    /\ GetCacheStored(cache, ContextKey(1)) # ret.value
    /\ ret.value = FreshContext(1)

\* C16: a read of a cached aggregate that finds an unexpired value, empty
\* or not, returns it without querying the store of record; a read that
\* misses queries the store of record, stores the result under the
\* aggregate's TTL and returns it.
C16_HitSkipsRecomputation ==
    [][/\ \A u \in Users :
             (GetUserContext(u) /\ Up)
             => IF ContextKey(u) \in DOMAIN cache
                THEN /\ ret'.value = GetCacheStored(cache, ContextKey(u))
                     /\ recomputed' = {}
                     /\ cache' = cache
                ELSE /\ "context" \in recomputed'
                     /\ ContextKey(u) \in DOMAIN cache'
                     /\ cache'[ContextKey(u)]
                           = [val |-> Serialize(ret'.value),
                              ttl |-> ContextTTL]
                     /\ IF DeliveriesKey(u) \in DOMAIN cache
                        THEN /\ "deliveries" \notin recomputed'
                             /\ ret'.value.dict.active_deliveries
                                   = GetCacheStored(cache, DeliveriesKey(u))
                        ELSE /\ "deliveries" \in recomputed'
                             /\ cache'[DeliveriesKey(u)]
                                   = [val |-> Serialize(ActiveDeliveries(u)),
                                      ttl |-> DeliveriesTTL]
       /\ \A u \in Actors :
             (GetDeliverySuggestions(u) /\ Up)
             => IF SuggestionsKey(u) \in DOMAIN cache
                THEN /\ ret'.value
                           = GetCacheStored(cache, SuggestionsKey(u))
                     /\ recomputed' = {}
                     /\ cache' = cache
                ELSE /\ "suggestions" \in recomputed'
                     /\ cache'[SuggestionsKey(u)]
                           = [val |-> Serialize(ret'.value),
                              ttl |-> SuggestionsTTL]
                     /\ "deliveries" \in recomputed'
                           <=> DeliveriesKey(u) \notin DOMAIN cache]_vars

\* C17: a successful status update of user U deletes U's deliveries key
\* and U's context key and leaves every other key with its value and
\* expiry; an update whose delivery is not found deletes nothing, changes
\* nothing in the store of record and publishes nothing.
C17_UpdateInvalidatesOwnKeysOnly ==
    [][\A u \in Users, o \in Orders, st \in {"in_transit", "delivered"} :
          UpdateDeliveryStatus(u, o, st)
          => IF Owner(o) = u
             THEN /\ Up => /\ DeliveriesKey(u) \notin DOMAIN cache'
                           /\ ContextKey(u) \notin DOMAIN cache'
                  /\ \A key \in DOMAIN cache \ {DeliveriesKey(u),
                                                ContextKey(u)} :
                        key \in DOMAIN cache' /\ cache'[key] = cache[key]
                  /\ DOMAIN cache' \subseteq DOMAIN cache
             ELSE /\ cache' = cache
                  /\ db_active' = db_active
                  /\ published' = {}]_vars

\* user 1's status update has just succeeded with user 1's and user 2's
\* keys stored before it: user 2's keys are still there, user 1's are gone
C17_Witness ==
    /\ ret.op = "update_delivery_status"
    /\ ret.value = PyStr([raw |-> "ORD1"])
    /\ Up
    /\ published = {DeliveryChannel("ORD1")}
    /\ {ContextKey(2), DeliveriesKey(2), SuggestionsKey(1)}
          \subseteq DOMAIN cache
    /\ ContextKey(1) \notin DOMAIN cache
    /\ DeliveriesKey(1) \notin DOMAIN cache

\* C18: every mutation of a user's entity, on every path, leaves none of
\* the user's cached keys that embed the mutated data: a status change
\* removes the deliveries, context and suggestions keys, a location update
\* (by the delivery service or by a client location_update message) and a
\* saved conversation remove the context key.
C18_MutationInvalidates ==
    [][Up =>
         /\ \A u \in Users, o \in Orders, st \in {"in_transit", "delivered"} :
               (UpdateDeliveryStatus(u, o, st) /\ Owner(o) = u)
               => {DeliveriesKey(u), ContextKey(u), SuggestionsKey(u)}
                     \cap DOMAIN cache' = {}
         /\ \A u \in Actors :
               SaveConversation(u) => ContextKey(u) \notin DOMAIN cache'
         /\ \A u \in Actors, pos \in Positions :
               UpdateUserLocation(u, pos)
               => ContextKey(u) \notin DOMAIN cache'
         /\ \A u \in Actors, pos \in Positions :
               HandleLocationUpdate(u, pos)
               => ContextKey(u) \notin DOMAIN cache']_vars

\* ------------------------------------------------------ time to live
TickStep == SuggestionsTTL \div 2
MaxTime == DeliveriesTTL + ContextTTL

\* TickStep seconds pass: Redis removes the keys whose expiry falls due
Tick ==
    /\ now < MaxTime
    /\ now' = now + TickStep
    /\ cache' = [key \in {k \in DOMAIN cache :
                             cache[k].ttl = 0 \/ cache[k].ttl > TickStep} |->
                    IF cache[key].ttl = 0
                    THEN cache[key]
                    ELSE [cache[key] EXCEPT !.ttl = @ - TickStep]]
    /\ ret' = [op |-> "", value |-> PyNone]
    /\ recomputed' = {}
    /\ UNCHANGED <<reachable, timeless>>

TtlInit ==
    /\ ManagerInit
    /\ redis_client = TRUE
    /\ db_active = [u \in Users |-> IF u = 1 THEN Orders ELSE {}]
    /\ deliveries_key = [u \in Users |-> Miss]
    /\ CacheIdle

TtlNext ==
    \/ \E u \in Actors : GetUserContext(u)
    \/ \E u \in Actors : GetDeliverySuggestions(u)
    \/ \E u \in Actors, o \in Orders, st \in {"in_transit", "delivered"} :
          UpdateDeliveryStatus(u, o, st)
    \/ \E u \in Actors : SaveConversation(u)
    \/ ConnectionLost
    \/ ConnectionRestored
    \/ Tick

TtlSpec == TtlInit /\ [][TtlNext]_vars

\* the suggestions a computation from the store of record yields
FreshSuggestions(user_id) ==
    PyList(IF db_active[user_id] # {}
           THEN <<"Update delivery status">>
           ELSE <<"Check for new delivery assignments">>)

\* C19: with the invalidation of a mutation skipped, no read of a cached
\* aggregate returns data that has been out of date with the store of
\* record for longer than the TTL of the aggregate read, the delivery list
\* inside the context and the delivery count behind the suggestions
\* included.
C19_StalenessWithinOwnTTL ==
    [][/\ \A u \in Actors :
             (/\ GetUserContext(u)
              /\ ret'.value.dict.active_deliveries # ActiveDeliveries(u))
             => now - changed_at <= ContextTTL
       /\ \A u \in Actors :
             (GetDeliverySuggestions(u) /\ ret'.value # FreshSuggestions(u))
             => now - changed_at <= SuggestionsTTL]_vars


\* ============================================ notification frames
\* C21: a status-change notification that reaches a client through the
\* listener has the type discriminator and the fields of the frame the
\* direct path writes for it.
C21_ListenerFrameHasDirectShape ==
    [][\A o \in Orders :
          ListenerMessage(DeliveryChannel(o))
          => \A t \in Transports : \A i \in 1..Len(sent'[t]) :
                \E u \in Users :
                   /\ sent'[t][i].type = StatusChanged(o, u).type
                   /\ DOMAIN sent'[t][i] = DOMAIN StatusChanged(o, u)]_vars


\* C23: the listener handle is set exactly while a listener runs: a
\* listener that has exited, for whatever reason, has its handle cleared,
\* so that the next successful connect launches a new one.
C23_HandleSetOnlyWhileListening ==
    /\ redis_subscriber_task = "Task" <=> listener_pc = "listening"
    /\ listener_pc \in {"-", "listening"}

\* check_rate_limit with a client whose calls all reach Redis: callers on
\* several nodes interleave with each other and with the expiry of the key
RateRaceInit ==
    /\ CacheInit
    /\ redis_client = TRUE

RateRaceNext ==
    \/ \E c \in Callers : RateLimitRead(c)
    \/ \E c \in Callers : RateLimitFinish(c)
    \/ RateWindowExpires

RateRaceSpec == RateRaceInit /\ [][RateRaceNext]_vars

\* C25: under every interleaving of the callers with each other and with
\* the expiry of the key, a window allows at most Limit calls, and the
\* counter key never exists without an expiry.
C25_LimitAndExpiryUnderInterleaving ==
    /\ RateKey \in DOMAIN cache => cache[RateKey].ttl > 0
    /\ rl_allowed <= Limit

\* C27: an emergency alert or a maintenance notice reaches every addressed
\* connected user whose transport is open and leaves that user registered,
\* also when the send to another addressed user fails.
C27_NoticeReachesEveryLiveUser ==
    [][/\ \A user_ids \in SUBSET Users :
             NotifyEmergencyAlert(user_ids)
             => \A a \in LiveAmong(user_ids) :
                   /\ sent'[active_connections[a]]
                         = <<Msg("emergency_alert", "")>>
                   /\ a \in DOMAIN active_connections'
       /\ \A order \in UNION {KeyOrders(k) : k \in SUBSET Users} :
             NotifySystemMaintenance(order)
             => \A a \in LiveAmong(DOMAIN active_connections) :
                   /\ sent'[active_connections[a]]
                         = <<Msg("system_maintenance", "")>>
                   /\ a \in DOMAIN active_connections']_vars

\* C29: a handshake registers a connection under user_id only when the
\* credential it presents is valid and names user_id as its subject.
C29_RegisteredOnlyWithOwnCredential ==
    [][\A t \in Transports, u \in Users, tok \in Tokens :
          HandleWebsocketAccepted(t, u, tok)
          => tok.valid /\ tok.sub = u]_vars


\* =========================================== the client message loop
\* f"location_updates:{user_id}"
LocationChannel(user_id) ==
    IF user_id = 1 THEN "location_updates:1" ELSE "location_updates:2"
SystemPattern == "system_notifications:*"

\* channels named in the subscribe / unsubscribe messages of the clients
LoopChannels == {SystemChannel, SystemPattern, LocationChannel(1)}
\* channels on which the bus hands a message to the listener
BusChannels == {SystemChannel, DeliveryChannel(LocationChannel(1))}

\* the decoded client messages; a key the message lacks reads as "" (the
\* None of message.get)
ClientMessages ==
    [type : {"subscribe", "unsubscribe"}, channel : LoopChannels \cup {""},
     lat : {""}, lng : {""}]
    \cup [type : {"location_update"}, channel : {""},
          lat : Positions \cup {""}, lng : Positions \cup {""}]
    \cup [type : {"ping", "get_status", "bogus", ""}, channel : {""},
          lat : {""}, lng : {""}]

\* a field test that lets an absent field through
HasFieldAny(v) == TRUE

\* `if channel:`, `if lat and lng:`
HasField(v) == v # ""

\* WebSocketHandler._handle_client_message: the manager state and the Redis
\* keyspace it leaves
HandleClientMessage(s, c, user_id, message) ==
    CASE message.type = "subscribe" ->
           IF HasField(message.channel)
           THEN [s |-> SendPersonalMessage(
                           SubscribeToChannel(s, user_id, message.channel),
                           Msg("subscription_confirmed", message.channel),
                           user_id),
                 cache |-> c]
           ELSE [s |-> s, cache |-> c]
      [] message.type = "unsubscribe" ->
           IF HasField(message.channel)
           THEN [s |-> SendPersonalMessage(
                           UnsubscribeFromChannel(s, user_id, message.channel),
                           Msg("unsubscription_confirmed", message.channel),
                           user_id),
                 cache |-> c]
           ELSE [s |-> s, cache |-> c]
      [] message.type = "location_update" ->
           IF HasField(message.lat) /\ HasField(message.lng)
           THEN [s |-> PublishDeliveryUpdate(s, LocationChannel(user_id)),
                 cache |-> SetCacheOp(c, LocationKey(user_id),
                                      LocationData(user_id, message.lat),
                                      LocationTTL).cache]
           ELSE [s |-> s, cache |-> c]
      [] message.type = "ping" ->
           [s |-> SendPersonalMessage(s, Msg("pong", ""), user_id),
            cache |-> c]
      [] message.type = "get_status" ->
           [s |-> SendPersonalMessage(s, Msg("status_update", ""), user_id),
            cache |-> c]
      [] OTHER -> [s |-> s, cache |-> c]

\* what a step of the receive loop leaves alone
loopframe == <<redis_subscriber_task, listener_pc, close_code, ws_user, pc,
               redis_client, deliveries_key, db_active, reachable,
               recomputed, ratevars, domainvars, clockvars, racevars,
               stepvars>>

\* one turn of the receive loop of handle_websocket: receive_text,
\* json.loads, _handle_client_message
ClientMessage(t, message) ==
    /\ Receiving(t)
    /\ LET r == HandleClientMessage(Manager, cache, ws_user[t], message)
       IN Commit(r.s) /\ cache' = r.cache
    /\ ret' = [op |-> "handle_client_message", value |-> message]
    /\ dropped' = {}
    /\ UNCHANGED loopframe

LoopInit ==
    /\ ManagerInit
    /\ redis_client = TRUE
    /\ db_active = [u \in Users |-> IF u = 1 THEN Orders ELSE {}]
    /\ deliveries_key = [u \in Users |-> Miss]
    /\ CacheIdle

\* clients that present their own valid credential and stay connected
LoopNext ==
    \/ \E t \in Transports, u \in Users :
          HandleWebsocketAccepted(t, u, [valid |-> TRUE, sub |-> u])
    \/ \E t \in Transports, message \in ClientMessages :
          ClientMessage(t, message)
    \/ \E c \in BusChannels : ListenerMessage(c)

LoopSpec == LoopInit /\ [][LoopNext]_vars


\* a message the handler has no use for: no known type, or a required
\* field is absent
Malformed(message) ==
    \/ message.type \notin {"subscribe", "unsubscribe", "location_update",
                            "ping", "get_status"}
    \/ message.type \in {"subscribe", "unsubscribe"} /\ message.channel = ""
    \/ message.type = "location_update"
          /\ (message.lat = "" \/ message.lng = "")

\* C22: a client message with an unrecognized type, or a subscribe,
\* unsubscribe or location_update message that lacks a required field,
\* gets no reply and changes nothing, and the receive loop of the
\* connection goes on with the connection and its subscriptions registered.
C22_MalformedMessageIgnored ==
    [][\A t \in Transports, message \in ClientMessages :
          (ClientMessage(t, message) /\ Malformed(message))
          => /\ sent' = NoneSent
             /\ published' = {}
             /\ UNCHANGED <<registry, cache, ws, pc>>
             /\ Receiving(t)'
             /\ Registered(ws_user[t], t) => Registered(ws_user[t], t)']_vars

\* the handler has just been through a subscribe message without a channel
\* on a registered connection that holds subscriptions
C22_Witness ==
    /\ ret.op = "handle_client_message"
    /\ ret.value.type = "subscribe" /\ ret.value.channel = ""
    /\ \E t \in Transports :
          /\ Receiving(t)
          /\ Registered(ws_user[t], t)
          /\ subscriptions[ws_user[t]] # {}

\* the manager state after the step
ManagerAfter == [active_connections |-> active_connections',
                 subscriptions |-> subscriptions',
                 channel_subscribers |-> channel_subscribers',
                 ws |-> ws',
                 sent |-> NoneSent,
                 published |-> {}]

\* C24: a broadcast on system_notifications:all is delivered to a connected
\* user whose subscription system_notifications:* matches the channel by
\* wildcard, as it is to the exact-match subscribers.
C24_WildcardSubscriberReceives ==
    [][ListenerMessage(SystemChannel)
       => \A u \in DOMAIN active_connections :
             (/\ u \in DOMAIN subscriptions
              /\ SystemPattern \in subscriptions[u]
              /\ ws[active_connections[u]] = "open")
             => sent'[active_connections[u]]
                   = <<Msg("redis_update", SystemChannel)>>]_vars

\* C28: a location_update with lat and lng from connected user U stores
\* U's location in the cache and publishes it on a channel whose relay by
\* the listener reaches the users subscribed to location_updates:U.
C28_LocationUpdateReachesSubscribers ==
    [][\A t \in Transports, message \in ClientMessages :
          (/\ ClientMessage(t, message)
           /\ message.type = "location_update"
           /\ ~Malformed(message))
          => /\ LocationKey(ws_user[t]) \in DOMAIN cache'
             /\ \E c \in published' :
                   \A a \in DOMAIN active_connections' :
                      (/\ a \in DOMAIN subscriptions'
                       /\ LocationChannel(ws_user[t]) \in subscriptions'[a]
                       /\ ws'[active_connections'[a]] = "open")
                      => BroadcastToChannel(ManagerAfter, c,
                                            Msg("redis_update", c))
                            .sent[active_connections'[a]] # <<>>]_vars


\* ================================== recomputation on a second node
\* what a step of the other node's get_user_context leaves alone
raceframe == <<registry, redis_subscriber_task, listener_pc, ws, close_code,
               ws_user, pc, sent, first_msg, dropped, published,
               redis_client, deliveries_key, db_active, reachable,
               recomputed, ratevars, domainvars, clockvars, stepvars>>

\* get_user_context on the other node, up to the reply of its query for
\* the active deliveries: neither the context nor the delivery list was in
\* the cache
RecomputeQuery(user_id) ==
    /\ rc_pc = "idle"
    /\ ~Truthy(GetCacheOp(cache, ContextKey(user_id)))
    /\ ~Truthy(GetCacheOp(cache, DeliveriesKey(user_id)))
    /\ rc_pc' = "queried"
    /\ rc_deliveries' = ActiveDeliveries(user_id)
    /\ ret' = [op |-> "", value |-> PyNone]
    /\ UNCHANGED <<cache, raceframe>>

\* get_user_context on the other node, from the reply of the query to the
\* return: cache the list, assemble the context, cache it
RecomputeStore(user_id) ==
    /\ rc_pc = "queried"
    /\ LET c1 == SetCacheOp(cache, DeliveriesKey(user_id), rc_deliveries,
                            DeliveriesTTL).cache
           current_location == GetCacheOp(c1, LocationKey(user_id))
           context == Context(rc_deliveries, db_conversations[user_id],
                              IF Truthy(current_location)
                              THEN current_location
                              ELSE DbLocation(user_id))
       IN /\ cache' = SetCacheOp(c1, ContextKey(user_id), context,
                                 ContextTTL).cache
          /\ ret' = [op |-> "get_user_context on the other node",
                     value |-> context]
    /\ rc_pc' = "idle"
    /\ rc_deliveries' = PyNone
    /\ UNCHANGED raceframe

RaceInit ==
    /\ ManagerInit
    /\ redis_client = TRUE
    /\ db_active = [u \in Users |-> IF u = 1 THEN Orders ELSE {}]
    /\ deliveries_key = [u \in Users |-> Miss]
    /\ CacheIdle

RaceNext ==
    \/ \E u \in Actors : GetUserContext(u)
    \/ \E u \in Actors : GetDeliverySuggestions(u)
    \/ \E u \in Actors, o \in Orders, st \in {"in_transit", "delivered"} :
          UpdateDeliveryStatus(u, o, st)
    \/ \E u \in Actors : SaveConversation(u)
    \/ \E u \in Actors : RecomputeQuery(u)
    \/ \E u \in Actors : RecomputeStore(u)
    \/ \E key \in {ContextKey(u) : u \in Actors}
                  \cup {DeliveriesKey(u) : u \in Actors}
                  \cup {SuggestionsKey(u) : u \in Actors} : Expire(key)

RaceSpec == RaceInit /\ [][RaceNext]_vars

\* C30: a read of the context that starts after a status update has
\* committed and invalidated returns the delivery list of the store of
\* record, not the list from before the update, whatever recomputation on
\* another node ran across the update.
C30_NoPreUpdateListAfterInvalidation ==
    [][\A u \in Actors :
          GetUserContext(u)
          => ret'.value.dict.active_deliveries = ActiveDeliveries(u)]_vars


\* ======================================= sends that do not complete
\* A transport is "stuck" when its peer has stopped reading: the await of
\* send_text on it never returns and never raises.  The steps below are the
\* stretches of the coroutines between two awaits that can suspend.

\* the subscribe requests the clients send
ClientRequests ==
    [type : {"subscribe"}, channel : {DeliveryChannel("ORD1")},
     lat : {""}, lng : {""}]

\* what the steps of this section leave alone
stepframe == <<redis_subscriber_task, listener_pc, close_code, ws_user, pc,
               redis_client, deliveries_key, db_active, cache, reachable,
               ret, recomputed, ratevars, domainvars, clockvars, racevars>>

\* the peer stops reading
TransportStalls(t) ==
    /\ ws[t] = "open"
    /\ ws' = [ws EXCEPT ![t] = "stuck"]
    /\ Quiet
    /\ dropped' = {}
    /\ UNCHANGED <<registry, stepvars, stepframe>>

\* a client frame arrives and waits for the handler's receive_text
ClientSends(t, message) ==
    /\ ws[t] = "open"
    /\ pc[t] = "loop"
    /\ req[t] = NoRequest
    /\ req' = [req EXCEPT ![t] = message]
    /\ Quiet
    /\ dropped' = {}
    /\ UNCHANGED <<registry, ws, bc_channel, bc_rest, stepframe>>

\* the send of send_personal_message can return or raise
Completes(user_id) ==
    user_id \in DOMAIN active_connections
    => ws[active_connections[user_id]] # "stuck"

\* one turn of the receive loop: the handler of the transport takes the
\* waiting frame and runs _handle_client_message to its end
HandleRequest(t) ==
    /\ pc[t] = "loop"
    /\ req[t] # NoRequest
    /\ Completes(ws_user[t])
    /\ Commit(HandleClientMessage(Manager, cache, ws_user[t], req[t]).s)
    /\ req' = [req EXCEPT ![t] = NoRequest]
    /\ dropped' = {}
    /\ UNCHANGED <<bc_channel, bc_rest, stepframe>>

\* the listener takes the next message from the bus: broadcast_to_channel
\* copies the subscriber set of the channel
BroadcastStart(channel, order) ==
    /\ listener_pc = "listening"
    /\ bc_channel = ""
    /\ channel \in DOMAIN channel_subscribers
    /\ order \in KeyOrders(channel_subscribers[channel])
    /\ bc_channel' = channel
    /\ bc_rest' = order
    /\ Quiet
    /\ dropped' = {}
    /\ UNCHANGED <<registry, ws, req, stepframe>>

\* the loop of broadcast_to_channel: the awaited send to the next user of
\* the copy returns or raises, and the loop moves on
BroadcastSend ==
    /\ bc_rest # <<>>
    /\ Completes(Head(bc_rest))
    /\ Commit(SendPersonalMessage(Manager, Msg("redis_update", bc_channel),
                                  Head(bc_rest)))
    /\ bc_rest' = Tail(bc_rest)
    /\ bc_channel' = IF Tail(bc_rest) = <<>> THEN "" ELSE bc_channel
    /\ dropped' = {}
    /\ UNCHANGED <<req, stepframe>>

StuckInit ==
    /\ ManagerInit
    /\ redis_client = TRUE
    /\ db_active = [u \in Users |-> IF u = 1 THEN Orders ELSE {}]
    /\ deliveries_key = [u \in Users |-> Miss]
    /\ CacheIdle

\* each user connects once, with its own credential
StuckNext ==
    \/ \E t \in Transports, u \in Users :
          /\ u \notin DOMAIN active_connections
          /\ HandleWebsocketAccepted(t, u, [valid |-> TRUE, sub |-> u])
    \/ \E t \in Transports : TransportStalls(t)
    \/ \E t \in Transports, message \in ClientRequests :
          ClientSends(t, message)
    \/ \E t \in Transports : HandleRequest(t)
    \/ \E c \in ListenerChannels,
          order \in UNION {KeyOrders(k) : k \in SUBSET Users} :
          BroadcastStart(c, order)
    \/ BroadcastSend

\* the event loop runs every coroutine that is ready to go on
StuckSpec ==
    /\ StuckInit
    /\ [][StuckNext]_vars
    /\ WF_vars(BroadcastSend)
    /\ \A t \in Transports : WF_vars(HandleRequest(t))

\* the broadcast in progress has yet to send to user_id
Awaited(user_id) ==
    \E i \in 1..Len(bc_rest) : bc_rest[i] = user_id

\* C26: while a send to a stuck client is pending, a request of a client
\* that is not stuck is eventually handled, every subscriber of the
\* broadcast whose own transport takes the frame eventually gets it, and
\* the broadcast eventually ends, so that the listener takes the next one.
C26_StuckClientBlocksNobody ==
    /\ \A t \in Transports :
          (req[t] # NoRequest /\ ws[t] = "open")
          ~> (req[t] = NoRequest \/ ws[t] # "open")
    /\ \A u \in Users :
          (/\ Awaited(u)
           /\ u \in DOMAIN active_connections
           /\ ws[active_connections[u]] = "open")
          ~> (~Awaited(u) \/ ws[active_connections[u]] # "open")
    /\ (bc_channel # "") ~> (bc_channel = "")

====
